---- MODULE Spec2Model ----
(***************************************************************************)
(* State-machine model of the GCS deployer MCP server:                     *)
(*   - ConfigManager (config.ts): load / save / accessors over the JSON    *)
(*     config file;                                                        *)
(*   - GcsDeployServer (gcs-deploy.ts): the CallToolRequestSchema handler  *)
(*     for configure_gcs and deploy_to_gcs, the identity probe, the upload *)
(*     loop, and the auth-recovery path.                                   *)
(* Node runs one callback at a time: every action below is the code that   *)
(* runs between two suspension points (await) of one handler invocation.   *)
(* Paths are POSIX paths (path.join/relative/basename of a POSIX build).   *)
(***************************************************************************)
EXTENDS Integers, Sequences, FiniteSets, TLC

VARIABLES
  file,      \* content of CONFIG_FILE on disk
  dir,       \* TRUE iff CONFIG_DIR exists
  calls,     \* per invocation slot: the state of one tool handler invocation
  ncalls,    \* number of tool invocations dispatched so far
  lastGen,   \* history: subfolder generated by the immediately preceding
             \* deploy_to_gcs dispatch that had no explicit prefix, else NONE
  crashed,   \* the node process died of an uncaught exception
  ret        \* history: outcome of the last direct ConfigManager API call

vars == <<file, dir, calls, ncalls, lastGen, crashed, ret>>

-----------------------------------------------------------------------------
(* Bounds                                                                    *)

\* total number of tool invocations dispatched in one run
MaxCalls == 3

\* handler invocations that may be in flight (suspended on I/O) at once
Slots == {1}

-----------------------------------------------------------------------------
(* JavaScript values                                                         *)

\* a key that is not present in an object
ABSENT == "<absent>"
\* a key that is present with the value undefined
UNDEFINED == "<undefined>"
NONE == "<none>"

\* JS truthiness of a string-or-undefined value
Truthy(v) == v # ABSENT /\ v # UNDEFINED /\ v # ""

\* obj.key in JS: an absent key reads as undefined
Read(v) == IF v = ABSENT THEN UNDEFINED ELSE v

Fields == {"bucketName", "projectId", "subfolder"}

EmptyRec == [bucketName |-> ABSENT, projectId |-> ABSENT, subfolder |-> ABSENT]

-----------------------------------------------------------------------------
(* The config file and JSON                                                  *)

\* kinds of content CONFIG_FILE can have:
\*   absent      no file                     (existsSync false)
\*   unreadable  readFileSync throws
\*   garbage     JSON.parse throws
\*   null, number, string, array             valid JSON that is not an object
\*   object      a JSON object; rec gives the three known keys, extra tells
\*               whether it has other keys
NoFile == [kind |-> "absent", rec |-> EmptyRec, extra |-> FALSE]

ObjFile(r, x) == [kind |-> "object", rec |-> r, extra |-> x]

NonObjectKinds == {"unreadable", "garbage", "null", "number", "string", "array"}

\* JSON.stringify(obj, null, 2) of an in-memory object: keys whose value is
\* undefined are omitted from the text
Stringify(obj) ==
  [f \in Fields |-> IF obj[f] = UNDEFINED THEN ABSENT ELSE obj[f]]

\* ConfigManager.load(): the parsed JSON value, or {} when the file is
\* missing or reading/parsing throws; it contains no throwing path of its own
Load(f) ==
  IF f.kind \in {"absent", "unreadable", "garbage"}
    THEN [kind |-> "object", rec |-> EmptyRec, extra |-> FALSE]
    ELSE [kind |-> f.kind, rec |-> f.rec, extra |-> f.extra]

\* ConfigManager.getBucket/getProject/getSubfolder: this.load().<field>
\* property access on null throws a TypeError; on a number, string or array
\* the property is undefined
GetField(f, name) ==
  LET v == Load(f) IN
  IF v.kind = "null" THEN [threw |-> TRUE, val |-> UNDEFINED]
  ELSE IF v.kind = "object" THEN [threw |-> FALSE, val |-> Read(v.rec[name])]
  ELSE [threw |-> FALSE, val |-> UNDEFINED]

\* { ...existing }: own enumerable keys of the loaded value; null and numbers
\* have none, strings and arrays contribute their index keys
SpreadRec(v) == IF v.kind = "object" THEN v.rec ELSE EmptyRec

SpreadExtra(v) ==
  IF v.kind = "object" THEN v.extra ELSE v.kind \in {"string", "array"}

\* a variant of the merge where the existing record wins over the partial
MergeExistingWins(existing, config) ==
  [f \in Fields |-> IF existing[f] # ABSENT THEN existing[f] ELSE config[f]]

\* { ...existing, ...config }: every key present in config overrides, also
\* one whose value is undefined
Merge(existing, config) ==
  [f \in Fields |-> IF config[f] # ABSENT THEN config[f] ELSE existing[f]]

\* outcomes of the file-system calls of save()
SaveOutcomes == {"ok", "mkdirFails", "writeFails"}

\* ConfigManager.save(config) under the given file-system outcome: the new
\* file, the new dir flag, and whether save() threw.  A failing mkdirSync or
\* writeFileSync leaves the file as it was.
SaveResult(f, d, config, outcome) ==
  IF ~d /\ outcome = "mkdirFails"
    THEN [file |-> f, dir |-> d, threw |-> TRUE]
  ELSE IF outcome # "ok"
    THEN [file |-> f, dir |-> TRUE, threw |-> TRUE]
  ELSE LET existing == Load(f)
           newConfig == Merge(SpreadRec(existing), config)
       IN [file |-> ObjFile(Stringify(newConfig), SpreadExtra(existing)),
           dir |-> TRUE, threw |-> FALSE]

-----------------------------------------------------------------------------
(* Paths: a path is the sequence of its "/"-separated segments, so the       *)
(* string "pre//a.txt" is <<"pre", "", "a.txt">> and "/dir" is <<"", "dir">> *)

\* the strings the model splits into more than one segment
Split(s) ==
  CASE s = "pre/"   -> <<"pre", "">>
    [] s = "/f.txt" -> <<"", "f.txt">>
    [] s = "/dir"   -> <<"", "dir">>
    [] s = "/gone"  -> <<"", "gone">>
    [] s = "/sock"  -> <<"", "sock">>
    [] OTHER        -> <<s>>

IsAbsolute(p) == Len(p) > 1 /\ p[1] = ""

RECURSIVE NormalizeString(_, _)
\* normalizeString of path.posix: drops empty and "." segments, and lets ".."
\* remove the segment before it (kept when there is none to remove)
NormalizeString(p, out) ==
  IF p = <<>> THEN out
  ELSE LET s == Head(p) IN
       IF s = "" \/ s = "." THEN NormalizeString(Tail(p), out)
       ELSE IF s = ".." /\ out # <<>> /\ out[Len(out)] # ".."
         THEN NormalizeString(Tail(p), SubSeq(out, 1, Len(out) - 1))
       ELSE NormalizeString(Tail(p), Append(out, s))

\* path.normalize: an absolute path keeps its leading "/"
Normalize(p) ==
  IF IsAbsolute(p) THEN <<"">> \o NormalizeString(p, <<>>)
  ELSE NormalizeString(p, <<>>)

\* path.join(a, b): the arguments joined by "/" and normalized
PathJoin(a, b) == Normalize(a \o b)

\* path.basename(p)
Basename(p) == p[Len(p)]

RECURSIVE CommonLen(_, _)
CommonLen(a, b) ==
  IF a = <<>> \/ b = <<>> \/ Head(a) # Head(b) THEN 0
  ELSE 1 + CommonLen(Tail(a), Tail(b))

\* path.relative(from, to) for absolute normalized paths
Relative(from, to) ==
  LET k == CommonLen(from, to) IN
  [i \in 1..(Len(from) - k) |-> ".."] \o SubSeq(to, k + 1, Len(to))

-----------------------------------------------------------------------------
(* The local file system the deployments read (fs.statSync, fs.readdirSync)  *)

FileEntry(n) == [name |-> n, isDir |-> FALSE, children |-> <<>>]

DirEntry(n, ch) == [name |-> n, isDir |-> TRUE, children |-> ch]

\* readdirSync("/dir") lists "sub" (holding b.txt) before "a.txt"
DirListing == <<DirEntry("sub", <<FileEntry("b.txt")>>), FileEntry("a.txt")>>

\* what fs.statSync(sourcePath) finds
StatKind(sourcePath) ==
  CASE sourcePath = "/f.txt" -> "file"
    [] sourcePath = "/dir"   -> "directory"
    [] sourcePath = "/sock"  -> "other"
    [] OTHER                 -> "missing"

RECURSIVE FilesFirst(_, _, _)
\* a variant of the traversal that lists a directory's files before it
\* descends into its subdirectories
FilesFirst(dirPath, entries, arrayOfFiles) ==
  LET plain == SelectSeq(entries, LAMBDA e : ~e.isDir)
      dirs  == SelectSeq(entries, LAMBDA e : e.isDir)
      here  == arrayOfFiles \o
               [i \in 1..Len(plain) |-> PathJoin(dirPath, <<"", plain[i].name>>)]
  IN IF dirs = <<>> THEN here
     ELSE FilesFirst(dirPath, Tail(dirs),
            FilesFirst(dirPath \o <<Head(dirs).name>>, Head(dirs).children, here))

RECURSIVE GetAllFiles(_, _, _)
\* getAllFiles(dirPath, arrayOfFiles): depth-first, in listing order
GetAllFiles(dirPath, entries, arrayOfFiles) ==
  IF entries = <<>> THEN arrayOfFiles
  ELSE LET e == Head(entries) IN
       IF e.isDir
         THEN GetAllFiles(dirPath, Tail(entries),
                GetAllFiles(dirPath \o <<e.name>>, e.children, arrayOfFiles))
         ELSE GetAllFiles(dirPath, Tail(entries),
                Append(arrayOfFiles, PathJoin(dirPath, <<"", e.name>>)))

-----------------------------------------------------------------------------
(* Errors and response texts.  A message or text is the sequence of its      *)
(* pieces; message.includes(x) is "x is one of the pieces".                  *)

CredentialsMsg == "Could not load the default credentials"

AnonymousMsg == "Anonymous caller does not have storage.objects.create access"

Err(code, message) == [code |-> code, message |-> message]

\* errors bucket.upload / file.makePublic can reject with
RemoteErrors ==
  { Err("401", <<"Unauthorized">>),
    Err("none", <<CredentialsMsg>>),
    Err("403", <<AnonymousMsg, " to the bucket">>),
    Err("403", <<"Forbidden">>) }

Includes(message, piece) == \E i \in DOMAIN message : message[i] = piece

\* a variant of isAuthError that also takes every 403 for an auth error
IsAuthErrorAnyDenied(error) ==
  \/ error.code \in {"401", "403"}
  \/ Includes(error.message, CredentialsMsg)
  \/ Includes(error.message, AnonymousMsg)

\* isAuthError of deploy()'s catch block
IsAuthError(error) ==
  \/ error.code = "401"
  \/ Includes(error.message, CredentialsMsg)
  \/ Includes(error.message, AnonymousMsg)

AuthLaunchedMsg ==
  <<"Authentication was missing. I have launched the gcloud login. Retry.">>

CouldNotLaunch == "Authentication failed and could not launch gcloud: "

\* the message deploy() throws from its inner catch (authError)
LaunchFailedMsg(authError, error) ==
  <<CouldNotLaunch>> \o authError.message \o <<". Original error: ">>
    \o error.message

LoginScope == "https://www.googleapis.com/auth/devstorage.full_control"

UnknownIdentity == "unknown (could not determine identity)"

\* String.prototype.trim on what the probe's stdout can hold
Trim(s) ==
  CASE s = "alice@example.com\n" -> "alice@example.com"
    [] s = "\n"                  -> ""
    [] OTHER                     -> s

\* responses of the request handler: a returned result (isError set or not)
\* or a thrown error, which the protocol layer reports as a fault
NoResp ==
  [kind |-> "none", isError |-> FALSE, code |-> NONE, text |-> <<>>,
   urls |-> <<>>]

Result(isError, text, urls) ==
  [kind |-> "result", isError |-> isError, code |-> NONE, text |-> text,
   urls |-> urls]

\* throw new McpError(code, ...), or any other thrown error (InternalError)
Fault(code, text) ==
  [kind |-> "fault", isError |-> FALSE, code |-> code, text |-> text,
   urls |-> <<>>]

\* the handler's catch around getCurrentIdentity/deploy
DeployErrorResult(error) ==
  Result(TRUE, <<"Error deploying to GCS: ">> \o error.message, <<>>)

\* the public URL uploadFile returns: https://storage.googleapis.com/b/dest
PublicUrl(bucketName, destination) ==
  <<"https:", "", "storage.googleapis.com", bucketName>> \o destination

-----------------------------------------------------------------------------
(* Tool invocations                                                          *)

\* request.params.arguments: has = FALSE when the request carries none
NoArgs ==
  [has |-> FALSE, sourcePath |-> ABSENT, bucketName |-> ABSENT,
   projectId |-> ABSENT, subfolder |-> ABSENT, destinationPrefix |-> ABSENT]

ConfigureArgs ==
  {NoArgs} \cup
  [has : {TRUE}, sourcePath : {ABSENT}, bucketName : {ABSENT, "b1"},
   projectId : {ABSENT, "p1"}, subfolder : {ABSENT, "", "s1"},
   destinationPrefix : {ABSENT}]

DeployArgs ==
  {NoArgs} \cup
  [has : {TRUE}, sourcePath : {ABSENT, "/f.txt", "/dir", "/gone", "/sock"},
   bucketName : {ABSENT, "b2"}, projectId : {ABSENT}, subfolder : {ABSENT},
   destinationPrefix : {ABSENT, "pre", "pre/"}]

\* Math.random() returns a double in [0, 1); the doubles modelled are the
\* multiples n / 2^RandomBits, written as their numerator n
RandomBits == 20

RandomUnit == 2 ^ RandomBits

\* 0.923..., 0.562... and 0.5
RandomValues == {968731, 590247, 524288}

\* the digits Number.prototype.toString(36) writes
Digits36 ==
  <<"0", "1", "2", "3", "4", "5", "6", "7", "8", "9", "a", "b", "c", "d",
    "e", "f", "g", "h", "i", "j", "k", "l", "m", "n", "o", "p", "q", "r",
    "s", "t", "u", "v", "w", "x", "y", "z">>

\* how many fraction digits are worked out: substring(2, 8) reads six
FractionDigits == 8

\* the base-36 fraction digits of r / RandomUnit, most significant first:
\* the expansion stops when nothing is left
RECURSIVE Fraction36(_, _)
Fraction36(r, k) ==
  IF r = 0 \/ k = 0 THEN ""
  ELSE LET m == r * 36
       IN Digits36[(m \div RandomUnit) + 1]
            \o Fraction36(m % RandomUnit, k - 1)

\* (n / RandomUnit).toString(36)
ToString36(n) ==
  IF n = 0 THEN "0" ELSE "0." \o Fraction36(n, FractionDigits)

Min(a, b) == IF a < b THEN a ELSE b

\* String.prototype.substring(start, end) for 0 <= start <= end: the
\* characters at the 0-based positions start .. end-1 that exist
Substring(str, start, end) == SubSeq(str, start + 1, Min(end, Len(str)))

\* Math.random().toString(36).substring(2, 8) (line 151)
RandomId(n) == Substring(ToString36(n), 2, 8)

\* values of Math.random().toString(36).substring(2, 8)
RandomIds == {RandomId(n) : n \in RandomValues}

NoErr == Err(NONE, <<>>)

\* one invocation of the CallToolRequestSchema handler
IdleCall ==
  [pc |-> "idle",          \* idle, probe, uploading, makingPublic, auth, done
   tool |-> NONE,          \* request.params.name
   args |-> NoArgs,        \* request.params.arguments
   bucketName |-> UNDEFINED,   \* the handler's locals after resolution
   projectId |-> UNDEFINED,
   prefix |-> "",          \* finalDestinationPrefix
   gen |-> ABSENT,         \* the subfolder this call generated, if any
   wrote |-> FALSE,        \* this call wrote CONFIG_FILE
   identity |-> NONE,      \* what getCurrentIdentity resolved to
   files |-> <<>>,         \* deploy(): the files to upload, in loop order
   started |-> 0,          \* number of bucket.upload calls made
   inflight |-> {},        \* indexes with an upload or makePublic pending
   urls |-> <<>>,          \* deploy(): urls
   nprobe |-> 0,           \* identity probes spawned
   nlogin |-> 0,           \* login flows spawned
   scopes |-> <<>>,        \* the --scopes of each login flow spawned
   error |-> NoErr,        \* the upload error being recovered from
   uploaded |-> <<>>,      \* keys whose bucket.upload resolved, in order
   failedAt |-> 0,         \* index of the file whose bucket.upload rejected
   failure |-> NoErr,      \* what that bucket.upload rejected with
   mpFailed |-> {},        \* <<index, error code>> of each file.makePublic
                           \* that rejected
   loginExit |-> NONE,     \* how the login flow ended: "0", "1" or "error"
   resp |-> NoResp]        \* what the handler returned or threw

\* a variant of the resolution that remembers the request's bucketName as
\* the new default
ResolvePersistsBucket(f, d, a, randomId, outcome) ==
  LET sv == SaveResult(f, d,
              [EmptyRec EXCEPT !.bucketName = a.bucketName], outcome)
      gs == GetField(f, "subfolder")
  IN [threw |-> sv.threw, file |-> sv.file, dir |-> sv.dir,
      bucketName |-> a.bucketName,
      projectId |-> GetField(f, "projectId").val,
      prefix |-> IF Truthy(a.destinationPrefix) THEN a.destinationPrefix
                 ELSE gs.val,
      gen |-> ABSENT, wrote |-> ~sv.threw, sticky |-> FALSE]

\* a variant of the resolution that generates a subfolder on every call
\* without explicit prefix, whatever is persisted
ResolveAlwaysGenerates(f, d, a, randomId, outcome) ==
  LET generated == "site-" \o randomId
      sv == SaveResult(f, d,
              [EmptyRec EXCEPT !.subfolder = generated], outcome)
  IN [threw |-> sv.threw, file |-> sv.file, dir |-> sv.dir,
      bucketName |-> IF Truthy(a.bucketName) THEN a.bucketName
                     ELSE GetField(f, "bucketName").val,
      projectId |-> GetField(f, "projectId").val,
      prefix |-> generated, gen |-> generated,
      wrote |-> ~sv.threw, sticky |-> TRUE]

\* lines 131-157 of the handler: bucketName, projectId and the sticky
\* subfolder, under the given random id and file-system outcome
Resolve(f, d, a, randomId, outcome) ==
  LET needBucket == ~Truthy(a.bucketName)
      gb == GetField(f, "bucketName")
      gp == GetField(f, "projectId")
      gs == GetField(f, "subfolder")
      bucketName == IF needBucket THEN gb.val ELSE a.bucketName
      destinationPrefix ==
        IF Truthy(a.destinationPrefix) THEN a.destinationPrefix ELSE ""
      generated == "site-" \o randomId
      sv == SaveResult(f, d,
              [EmptyRec EXCEPT !.subfolder = generated], outcome)
      base == [threw |-> FALSE, file |-> f, dir |-> d,
               bucketName |-> bucketName, projectId |-> gp.val,
               prefix |-> destinationPrefix, gen |-> ABSENT,
               wrote |-> FALSE, sticky |-> FALSE]
  IN IF (needBucket /\ gb.threw) \/ gp.threw
       THEN [base EXCEPT !.threw = TRUE]
     ELSE IF destinationPrefix # "" THEN base
     ELSE IF gs.threw THEN [base EXCEPT !.threw = TRUE, !.sticky = TRUE]
     ELSE IF Truthy(gs.val)
       THEN [base EXCEPT !.prefix = gs.val, !.sticky = TRUE]
     ELSE [base EXCEPT !.threw = sv.threw, !.file = sv.file, !.dir = sv.dir,
                       !.prefix = generated, !.gen = generated,
                       !.wrote = ~sv.threw, !.sticky = TRUE]

\* lines 164-166: the names of the missing configuration items
MissingItems(bucketName, projectId) ==
  (IF Truthy(bucketName) THEN <<>> ELSE <<"bucketName">>) \o
  (IF Truthy(projectId) THEN <<>> ELSE <<"projectId">>)

MissingText(missingItems) ==
  <<"GCS configuration missing: ">> \o missingItems \o
  <<". Please run the configure_gcs tool.">>

\* the text of configure_gcs's result
SavedText(a) ==
  <<"Configuration saved for bucket ", Read(a.bucketName)>> \o
  (IF Truthy(a.projectId) THEN <<" in project ", a.projectId>> ELSE <<>>) \o
  (IF Truthy(a.subfolder) THEN <<" with subfolder ", a.subfolder>> ELSE <<>>)

SaveFailedMsg == <<"EACCES: permission denied">>

TypeErrorMsg == <<"TypeError: Cannot read properties">>

\* the file-system outcomes possible when CONFIG_DIR exists or not
Outcomes(d) == IF d THEN SaveOutcomes \ {"mkdirFails"} ELSE SaveOutcomes

-----------------------------------------------------------------------------
(* deploy() and uploadFile(), cut at their suspension points                 *)

Done(cl, resp) == [cl EXCEPT !.pc = "done", !.inflight = {}, !.resp = resp]

\* the destination key of the i-th file of the call (lines 237 and 243-244)
Destination(cl, i) ==
  LET sourcePath == Split(cl.args.sourcePath) IN
  IF StatKind(cl.args.sourcePath) = "file"
    THEN PathJoin(Split(cl.prefix), <<Basename(sourcePath)>>)
    ELSE PathJoin(Split(cl.prefix), Relative(sourcePath, cl.files[i]))

PreflightMsg(cl) ==
  <<"Deploying ", cl.args.sourcePath, " to bucket ", cl.bucketName,
    " in project ", cl.projectId, " using identity ", cl.identity,
    " subfolder ", cl.prefix>>

SuccessResult(cl) ==
  Result(FALSE,
         PreflightMsg(cl) \o <<"Successfully deployed to GCS. Public URLs:">>,
         cl.urls)

\* the loop of deploy(): call bucket.upload for the next file, or return urls
NextUpload(cl) ==
  IF cl.started < Len(cl.files)
    THEN [cl EXCEPT !.pc = "uploading", !.started = cl.started + 1,
                    !.inflight = {cl.started + 1}]
    ELSE Done(cl, SuccessResult(cl))

\* a variant of deploy()'s catch block that skips the file whose upload
\* failed and goes on with the loop
CatchSkipsFile(cl, error) == NextUpload([cl EXCEPT !.inflight = {}])

\* deploy()'s catch block (lines 251-273) for an error thrown in its try:
\* an auth error spawns the login flow, any other error is re-thrown to the
\* handler's catch
CatchInDeploy(cl, error) ==
  IF IsAuthError(error)
    THEN [cl EXCEPT !.pc = "auth", !.inflight = {}, !.error = error,
                    !.nlogin = cl.nlogin + 1,
                    !.scopes = Append(cl.scopes, LoginScope)]
    ELSE Done(cl, DeployErrorResult(error))

\* a variant of deploy() that refuses to upload when the identity could not
\* be determined
EnterDeployNeedsIdentity(cl) ==
  IF cl.identity = UnknownIdentity
    THEN Done(cl, DeployErrorResult(Err(NONE, <<"no identity">>)))
    ELSE NextUpload([cl EXCEPT !.files = <<Split(cl.args.sourcePath)>>])

\* deploy() from its entry to its first suspension point (lines 231-250)
EnterDeploy(cl) ==
  LET kind == StatKind(cl.args.sourcePath) IN
  CASE kind = "missing" ->
         Done(cl, DeployErrorResult(
                    Err("ENOENT", <<"ENOENT: no such file or directory">>)))
    [] kind = "file" ->
         NextUpload([cl EXCEPT !.files = <<Split(cl.args.sourcePath)>>])
    [] kind = "directory" ->
         NextUpload([cl EXCEPT !.files =
           GetAllFiles(Split(cl.args.sourcePath), DirListing, <<>>)])
    [] OTHER ->
         CatchInDeploy(cl,
           Err(NONE, <<"sourcePath must be a file or directory">>))

\* uploadFile() once bucket.upload has settled with r (line 328): on success
\* it goes on to file.makePublic, a rejection reaches deploy()'s catch
AfterUpload(cl, r) ==
  IF r.code = "ok"
    THEN [cl EXCEPT !.pc = "makingPublic",
                    !.uploaded = Append(cl.uploaded,
                                   Destination(cl, cl.started))]
    ELSE CatchInDeploy([cl EXCEPT !.failedAt = cl.started, !.failure = r], r)

\* a variant of uploadFile() without the try/catch around file.makePublic:
\* the rejection reaches deploy()'s catch
MakePublicErrorPropagates(cl, r) ==
  IF r.code = "ok"
    THEN NextUpload([cl EXCEPT
           !.urls = Append(cl.urls,
                      PublicUrl(cl.bucketName, Destination(cl, cl.started))),
           !.inflight = {}])
    ELSE CatchInDeploy([cl EXCEPT !.mpFailed =
                          cl.mpFailed \cup {<<cl.started, r.code>>}], r)

\* uploadFile() once file.makePublic has settled with r (lines 340-347), then
\* deploy()'s urls.push and the next turn of its loop: a rejection is caught
\* and logged, the url is returned either way
AfterMakePublic(cl, r) ==
  LET url == PublicUrl(cl.bucketName, Destination(cl, cl.started)) IN
  NextUpload([cl EXCEPT
    !.urls = Append(cl.urls, url),
    !.inflight = {},
    !.mpFailed = IF r.code = "ok" THEN cl.mpFailed
                 ELSE cl.mpFailed \cup {<<cl.started, r.code>>}])

\* the error deploy() throws once attemptAutoAuth() has resolved: the throw
\* of line 266 is inside the try whose catch (lines 267-270) wraps it
AfterLoginResolved(error) ==
  Err(NONE, LaunchFailedMsg(Err(NONE, AuthLaunchedMsg), error))

\* the error deploy() throws once attemptAutoAuth() has rejected
AfterLoginRejected(authError, error) ==
  Err(NONE, LaunchFailedMsg(authError, error))

\* deploy() and the handler once the login flow has closed with the given
\* exit code (lines 304-307, 265-270 and 198-207)
AfterLoginClose(cl, code) ==
  LET thrown == IF code = 0 THEN AfterLoginResolved(cl.error)
                ELSE AfterLoginRejected(
                       Err(NONE, <<"gcloud exited with code ", "1">>),
                       cl.error)
  IN Done([cl EXCEPT !.loginExit = IF code = 0 THEN "0" ELSE "1"],
          DeployErrorResult(thrown))

\* the same once the login flow has emitted 'error' (line 298)
AfterLoginFailed(cl) ==
  Done([cl EXCEPT !.loginExit = "error"],
       DeployErrorResult(
         AfterLoginRejected(Err("ENOENT", <<"spawn gcloud ENOENT">>),
                            cl.error)))

-----------------------------------------------------------------------------
(* Initial states                                                            *)

\* records a previous run of the server can have left in CONFIG_FILE
ConfigRecs ==
  [bucketName : {ABSENT, "b1"}, projectId : {ABSENT, "p1"},
   subfolder : {ABSENT, "s1"}]

\* no ConfigManager call made yet
NoRet ==
  [op |-> NONE,            \* load, get or save
   name |-> NONE,          \* get: the field read
   arg |-> EmptyRec,       \* save: the partial passed
   before |-> NoFile,      \* CONFIG_FILE when the call was made
   threw |-> FALSE,        \* the call threw
   val |-> NoFile,         \* load: the value returned
   str |-> UNDEFINED,      \* get: the value returned
   repeat |-> FALSE]       \* save: the call before it was the same save

Init ==
  /\ \/ file = NoFile /\ dir \in BOOLEAN
     \/ file \in {ObjFile(r, FALSE) : r \in ConfigRecs} /\ dir = TRUE
  /\ calls = [c \in Slots |-> IdleCall]
  /\ ncalls = 0
  /\ lastGen = NONE
  /\ crashed = FALSE
  /\ ret = NoRet

-----------------------------------------------------------------------------
(* The request handler (lines 112-211)                                       *)

CanDispatch(c) == ~crashed /\ calls[c].pc = "idle" /\ ncalls < MaxCalls

\* request.params.name === 'configure_gcs' (lines 113-128), for config file
\* f, request arguments a and the given file-system outcome: the file left
\* behind and the invocation
ConfigureRequest(f, d, a, outcome) ==
  LET cl == [IdleCall EXCEPT !.tool = "configure_gcs", !.args = a]
      sv == SaveResult(f, d,
              [bucketName |-> Read(a.bucketName),
               projectId |-> Read(a.projectId),
               subfolder |-> Read(a.subfolder)], outcome)
  IN IF ~a.has
       THEN [file |-> f, dir |-> d,
             call |-> Done(cl, Fault("InternalError", TypeErrorMsg))]
       ELSE [file |-> sv.file, dir |-> sv.dir,
             call |-> Done([cl EXCEPT !.wrote = ~sv.threw],
                           IF sv.threw
                             THEN Fault("InternalError", SaveFailedMsg)
                             ELSE Result(FALSE, SavedText(a), <<>>))]

ConfigureGcs(c) ==
  /\ CanDispatch(c)
  /\ \E a \in ConfigureArgs, outcome \in Outcomes(dir) :
       LET h == ConfigureRequest(file, dir, a, outcome)
       IN /\ file' = h.file
          /\ dir' = h.dir
          /\ calls' = [calls EXCEPT ![c] = h.call]
  /\ ncalls' = ncalls + 1
  /\ lastGen' = NONE
  /\ UNCHANGED <<crashed, ret>>

\* a variant of the handler that yields to the event loop between generating
\* the subfolder and persisting it: the file is not yet written when the
\* next invocation is dispatched
DeployRequestSavesLater(f, d, a, randomId, outcome) ==
  LET r  == Resolve(f, d, a, randomId, outcome)
      cl == [IdleCall EXCEPT !.tool = "deploy_to_gcs", !.args = a]
  IN [file |-> f, dir |-> d, gen |-> r.gen,
      call |-> [cl EXCEPT !.bucketName = r.bucketName,
                          !.projectId = r.projectId,
                          !.prefix = r.prefix, !.gen = r.gen,
                          !.wrote = r.wrote,
                          !.pc = "probe", !.nprobe = 1]]

\* request.params.name === 'deploy_to_gcs' up to the first await
\* (lines 130-182), for config file f, request arguments a, the given random
\* id and file-system outcome: the file left behind and the invocation
DeployRequest(f, d, a, randomId, outcome) ==
  LET r  == Resolve(f, d, a, randomId, outcome)
      cl == [IdleCall EXCEPT !.tool = "deploy_to_gcs", !.args = a]
      rl == [cl EXCEPT !.bucketName = r.bucketName,
                       !.projectId = r.projectId,
                       !.prefix = r.prefix, !.gen = r.gen,
                       !.wrote = r.wrote]
      missingItems == MissingItems(r.bucketName, r.projectId)
  IN IF ~a.has
       THEN [file |-> f, dir |-> d, gen |-> ABSENT,
             call |-> Done(cl, Fault("InternalError", TypeErrorMsg))]
       ELSE [file |-> r.file, dir |-> r.dir, gen |-> r.gen,
             call |->
               IF r.threw
                 THEN Done(rl, Fault("InternalError",
                        IF r.gen # ABSENT THEN SaveFailedMsg
                        ELSE TypeErrorMsg))
               ELSE IF ~Truthy(a.sourcePath)
                 THEN Done(rl, Fault("InvalidParams",
                        <<"Missing required argument: sourcePath">>))
               ELSE IF missingItems # <<>>
                 THEN Done(rl, Result(TRUE, MissingText(missingItems), <<>>))
               ELSE [rl EXCEPT !.pc = "probe", !.nprobe = 1]]

DeployToGcs(c) ==
  /\ CanDispatch(c)
  /\ \E a \in DeployArgs, randomId \in RandomIds, outcome \in Outcomes(dir) :
       LET h == DeployRequest(file, dir, a, randomId, outcome)
       IN /\ file' = h.file
          /\ dir' = h.dir
          /\ lastGen' = IF h.gen # ABSENT THEN h.gen ELSE NONE
          /\ calls' = [calls EXCEPT ![c] = h.call]
  /\ ncalls' = ncalls + 1
  /\ UNCHANGED <<crashed, ret>>

\* any other tool name (line 210)
UnknownTool(c) ==
  /\ CanDispatch(c)
  /\ calls' = [calls EXCEPT ![c] =
       Done([IdleCall EXCEPT !.tool = "unknown"],
            Fault("MethodNotFound", <<"Unknown tool">>))]
  /\ ncalls' = ncalls + 1
  /\ lastGen' = NONE
  /\ UNCHANGED <<file, dir, crashed, ret>>

\* how a child process can exit, and what the probe can have printed
ExitCodes == {0, 1}

ProbeOutputs == {"alice@example.com\n", "\n", ""}

\* what getCurrentIdentity resolves with on 'close' (lines 220-226)
ProbeIdentity(code, stdout) ==
  IF code = 0 /\ Truthy(Trim(stdout)) THEN Trim(stdout) ELSE UnknownIdentity

\* the identity probe's 'close' event (lines 220-226), then the handler up to
\* deploy()'s first await (lines 185-188)
ProbeClose(c) ==
  /\ ~crashed
  /\ calls[c].pc = "probe"
  /\ \E code \in ExitCodes, stdout \in ProbeOutputs :
       calls' = [calls EXCEPT ![c] =
         EnterDeploy([calls[c] EXCEPT
           !.identity = ProbeIdentity(code, stdout)])]
  /\ UNCHANGED <<file, dir, ncalls, lastGen, crashed, ret>>

\* the identity probe's 'error' event: getCurrentIdentity registers no
\* listener for it, so the emitter throws and the process dies
ProbeError(c) ==
  /\ ~crashed
  /\ calls[c].pc = "probe"
  /\ crashed' = TRUE
  /\ UNCHANGED <<file, dir, calls, ncalls, lastGen, ret>>

\* bucket.upload settles (line 328): on success uploadFile goes on to call
\* file.makePublic (line 341), on failure the error reaches deploy()'s catch
UploadSettle(c) ==
  /\ ~crashed
  /\ calls[c].pc = "uploading"
  /\ \E r \in {Err("ok", <<>>)} \cup RemoteErrors :
       calls' = [calls EXCEPT ![c] = AfterUpload(calls[c], r)]
  /\ UNCHANGED <<file, dir, ncalls, lastGen, crashed, ret>>

\* file.makePublic settles (lines 340-347): a rejection is only logged; the
\* url is pushed and the loop goes on
MakePublicSettle(c) ==
  /\ ~crashed
  /\ calls[c].pc = "makingPublic"
  /\ \E r \in {Err("ok", <<>>)} \cup RemoteErrors :
       calls' = [calls EXCEPT ![c] = AfterMakePublic(calls[c], r)]
  /\ UNCHANGED <<file, dir, ncalls, lastGen, crashed, ret>>

\* the login flow's 'close' event (lines 304-307)
LoginClose(c) ==
  /\ ~crashed
  /\ calls[c].pc = "auth"
  /\ \E code \in ExitCodes :
       calls' = [calls EXCEPT ![c] = AfterLoginClose(calls[c], code)]
  /\ UNCHANGED <<file, dir, ncalls, lastGen, crashed, ret>>

\* the login flow's 'error' event (line 298)
LoginError(c) ==
  /\ ~crashed
  /\ calls[c].pc = "auth"
  /\ calls' = [calls EXCEPT ![c] = AfterLoginFailed(calls[c])]
  /\ UNCHANGED <<file, dir, ncalls, lastGen, crashed, ret>>

\* the response has been sent; the slot can take another invocation
Retire(c) ==
  /\ ~crashed
  /\ calls[c].pc = "done"
  /\ calls' = [calls EXCEPT ![c] = IdleCall]
  /\ UNCHANGED <<file, dir, ncalls, lastGen, crashed, ret>>

Next ==
  \E c \in Slots :
    \/ ConfigureGcs(c)
    \/ DeployToGcs(c)
    \/ UnknownTool(c)
    \/ ProbeClose(c)
    \/ ProbeError(c)
    \/ UploadSettle(c)
    \/ MakePublicSettle(c)
    \/ LoginClose(c)
    \/ LoginError(c)
    \/ Retire(c)

Spec == Init /\ [][Next]_vars

-----------------------------------------------------------------------------
(* ConfigManager called directly, over any content of CONFIG_FILE            *)

\* every content the config file can have on disk
AnyFile ==
  {NoFile} \cup
  {[kind |-> k, rec |-> EmptyRec, extra |-> FALSE] : k \in NonObjectKinds} \cup
  {ObjFile(r, x) : r \in [bucketName : {ABSENT, "b1"},
                          projectId : {ABSENT, "p1"},
                          subfolder : {ABSENT, "", "s1"}],
                   x \in BOOLEAN}

\* the partials save() is called with: a key can be absent, present with
\* the value undefined, or present with a string
Partials ==
  [bucketName : {ABSENT, UNDEFINED, "b2"},
   projectId : {ABSENT, UNDEFINED, "p2"},
   subfolder : {ABSENT, UNDEFINED, "s2"}]

InitFs ==
  /\ file \in AnyFile
  /\ dir \in (IF file.kind = "absent" THEN BOOLEAN ELSE {TRUE})
  /\ calls = [c \in Slots |-> IdleCall]
  /\ ncalls = 0
  /\ lastGen = NONE
  /\ crashed = FALSE
  /\ ret = NoRet

\* ConfigManager.load() (lines 22-32)
ApiLoad ==
  /\ ret' = [NoRet EXCEPT !.op = "load", !.before = file, !.val = Load(file)]
  /\ UNCHANGED <<file, dir, calls, ncalls, lastGen, crashed>>

\* ConfigManager.getBucket / getProject / getSubfolder (lines 48-58)
ApiGet ==
  /\ \E name \in Fields :
       LET g == GetField(file, name) IN
       ret' = [NoRet EXCEPT !.op = "get", !.name = name, !.before = file,
                            !.threw = g.threw, !.str = g.val]
  /\ UNCHANGED <<file, dir, calls, ncalls, lastGen, crashed>>

\* ConfigManager.save(partial) (lines 34-46)
ApiSave ==
  /\ \E partial \in Partials, outcome \in Outcomes(dir) :
       LET sv == SaveResult(file, dir, partial, outcome) IN
       /\ file' = sv.file
       /\ dir' = sv.dir
       /\ ret' = [NoRet EXCEPT !.op = "save", !.arg = partial,
                    !.before = file, !.threw = sv.threw,
                    !.repeat = (ret.op = "save" /\ ~ret.threw
                                /\ ret.arg = partial)]
  /\ UNCHANGED <<calls, ncalls, lastGen, crashed>>

NextFs == ApiLoad \/ ApiGet \/ ApiSave

SpecFs == InitFs /\ [][NextFs]_vars

-----------------------------------------------------------------------------
(* Properties of the configure_gcs / deploy_to_gcs handler                   *)

\* the step in which slot c handles a configure_gcs call that returns
ConfigureStep(c) ==
  /\ calls[c].pc = "idle"
  /\ calls'[c].tool = "configure_gcs"
  /\ calls'[c].resp.kind = "result"

\* C1: across any configure_gcs call, a field of the persisted record that
\* the call does not supply (bucketName, projectId, subfolder) keeps the
\* value it had before the call.
C1_NoFieldLost ==
  [][\A c \in Slots : ConfigureStep(c) =>
       \A f \in Fields :
         calls'[c].args[f] = ABSENT => file'.rec[f] = file.rec[f]]_vars

\* C2: when an upload raises an authentication error the login flow is
\* spawned exactly once with the single scope devstorage.full_control; if it
\* exits 0 the response is error-flagged, its text is the constructed
\* "authentication was missing, a login was launched, retry" message and does
\* not say the login could not be launched; only when it exits non-zero or
\* emits an error does the text combine the failure reason with the original
\* upload error.
C2_LoginOutcome ==
  \A c \in Slots :
    LET cl == calls[c] IN
    (cl.tool = "deploy_to_gcs" /\ cl.error # NoErr) =>
      /\ cl.nlogin = 1
      /\ cl.scopes = <<LoginScope>>
      /\ (cl.pc = "done" /\ cl.loginExit = "0") =>
           /\ cl.resp = Result(TRUE,
                          <<"Error deploying to GCS: ">> \o AuthLaunchedMsg,
                          <<>>)
           /\ ~Includes(cl.resp.text, CouldNotLaunch)
      /\ (cl.pc = "done" /\ cl.loginExit \in {"1", "error"}) =>
           /\ cl.resp.kind = "result" /\ cl.resp.isError
           /\ Includes(cl.resp.text, CouldNotLaunch)
           /\ \A i \in DOMAIN cl.error.message :
                Includes(cl.resp.text, cl.error.message[i])

\* C3: a deploy_to_gcs call whose sourcePath does not exist (bucketName and
\* projectId resolvable) never spawns the identity probe and never calls
\* bucket.upload.
C3_InvalidSourceBeforeProbe ==
  \A c \in Slots :
    LET cl == calls[c] IN
    ( /\ cl.tool = "deploy_to_gcs"
      /\ Truthy(cl.args.sourcePath)
      /\ StatKind(cl.args.sourcePath) = "missing"
      /\ Truthy(cl.bucketName) /\ Truthy(cl.projectId) ) =>
      cl.nprobe = 0 /\ cl.started = 0

\* the call in slot c lacks the argument its tool requires
MissingRequired(cl) ==
  \/ cl.tool = "configure_gcs" /\ cl.args.bucketName = ABSENT
  \/ cl.tool = "deploy_to_gcs" /\ cl.args.sourcePath = ABSENT

\* C4: every error of a configure_gcs or deploy_to_gcs call is returned as a
\* structured response; the only thrown faults are MethodNotFound for an
\* unknown tool name and InvalidParams for a missing required argument
\* (stated for the calls that carry their required argument: they return a
\* structured response, a config write failure or an invalid source path
\* included, and an unknown tool name throws MethodNotFound).
C4_ErrorsAreStructured ==
  \A c \in Slots :
    LET cl == calls[c] IN
    cl.pc = "done" =>
      /\ (cl.args.has /\ ~MissingRequired(cl)) => cl.resp.kind = "result"
      /\ cl.tool = "unknown" =>
           cl.resp.kind = "fault" /\ cl.resp.code = "MethodNotFound"

\* C5: a call that omits its required argument (sourcePath for
\* deploy_to_gcs, bucketName for configure_gcs) raises InvalidParams, and
\* configure_gcs without bucketName never writes the persisted record.
C5_MissingRequiredArgument ==
  \A c \in Slots :
    LET cl == calls[c] IN
    (cl.pc = "done" /\ cl.args.has /\ MissingRequired(cl)) =>
      /\ cl.resp.kind = "fault" /\ cl.resp.code = "InvalidParams"
      /\ cl.tool = "configure_gcs" => ~cl.wrote

-----------------------------------------------------------------------------
(* Properties of ConfigManager, checked under SpecFs                         *)

\* C6: for every content of the config file load() returns without throwing
\* and returns a record, and the accessors getBucket / getProject /
\* getSubfolder never throw.
C6_LoadNeverThrows ==
  /\ ret.op = "load" => ~ret.threw /\ ret.val.kind = "object"
  /\ ret.op = "get" => ~ret.threw

\* what obj.f reads for the record stored in file f
Stored(f, name) == Read(Load(f).rec[name])

-----------------------------------------------------------------------------
(* Properties of the sticky subfolder, of the missing-configuration check    *)
(* and of the upload loop                                                    *)

\* the step in which slot c takes a deploy_to_gcs call that carries no
\* explicit destinationPrefix
DeployStep(c) ==
  /\ calls[c].pc = "idle"
  /\ calls'[c].tool = "deploy_to_gcs"
  /\ calls'[c].args.has
  /\ ~Truthy(calls'[c].args.destinationPrefix)

\* C8 as stated: with no persisted subfolder a deploy_to_gcs call without
\* explicit prefix generates a prefix and persists it; the next such call
\* uses exactly that prefix and generates none; once a subfolder is
\* persisted every such call resolves to it and writes nothing.
C8_StickyAsStated ==
  [][\A c \in Slots : DeployStep(c) =>
       /\ file.rec.subfolder = ABSENT =>
            /\ calls'[c].gen # ABSENT
            /\ file'.rec.subfolder = calls'[c].gen
       /\ lastGen # NONE =>
            calls'[c].prefix = lastGen /\ calls'[c].gen = ABSENT
       /\ file.rec.subfolder # ABSENT =>
            /\ calls'[c].prefix = file.rec.subfolder
            /\ file' = file]_vars

\* C8 (amended): with no non-empty subfolder persisted, a deploy_to_gcs call
\* without explicit prefix generates a prefix site-<id> and persists it when
\* the config write succeeds; when the write fails the call throws and the
\* file is unchanged.  With a non-empty subfolder persisted, in particular
\* the one the call before it generated, the call resolves to exactly that
\* subfolder, generates none and writes nothing.
C8_Sticky ==
  [][\A c \in Slots : DeployStep(c) =>
       /\ ~Truthy(file.rec.subfolder) =>
            /\ calls'[c].gen \in {"site-" \o id : id \in RandomIds}
            /\ calls'[c].prefix = calls'[c].gen
            /\ calls'[c].wrote =>
                 file'.rec = [file.rec EXCEPT !.subfolder = calls'[c].gen]
            /\ ~calls'[c].wrote =>
                 file' = file /\ calls'[c].resp.kind = "fault"
       /\ Truthy(file.rec.subfolder) =>
            /\ calls'[c].prefix = file.rec.subfolder
            /\ calls'[c].gen = ABSENT
            /\ ~calls'[c].wrote
            /\ file' = file
       /\ (lastGen # NONE /\ file.rec.subfolder = lastGen) =>
            calls'[c].prefix = lastGen /\ calls'[c].gen = ABSENT]_vars

\* C8 witness: a deploy_to_gcs call without explicit prefix that runs on the
\* subfolder an earlier call generated and persisted, writing nothing
C8_Witness ==
  \E c \in Slots :
    LET cl == calls[c] IN
    /\ cl.tool = "deploy_to_gcs" /\ cl.args.has
    /\ ~Truthy(cl.args.destinationPrefix)
    /\ cl.prefix \in {"site-" \o id : id \in RandomIds}
    /\ cl.gen = ABSENT /\ ~cl.wrote
    /\ file.rec.subfolder = cl.prefix
    /\ cl.pc = "uploading"

\* C9: a deploy_to_gcs call with sourcePath given whose bucketName is absent
\* from request and config, and/or whose projectId is absent from the
\* config, returns an error-flagged response naming exactly the missing
\* fields, and makes no upload call, spawns no identity probe and no login.
C9_MissingConfig ==
  \A c \in Slots :
    LET cl == calls[c]
        names == (IF Truthy(cl.bucketName) THEN <<>> ELSE <<"bucketName">>)
                 \o (IF Truthy(cl.projectId) THEN <<>> ELSE <<"projectId">>)
    IN ( /\ cl.pc = "done" /\ cl.tool = "deploy_to_gcs"
         /\ Truthy(cl.args.sourcePath)
         /\ names # <<>> ) =>
         /\ cl.resp.kind = "result" /\ cl.resp.isError
         /\ \A n \in {"bucketName", "projectId"} :
              Includes(cl.resp.text, n) <=> Includes(names, n)
         /\ cl.started = 0 /\ cl.nprobe = 0 /\ cl.nlogin = 0

\* the files of the source paths, relative to the source root, in traversal
\* order (a single file stands for its basename)
ExpectedKeys(sourcePath) ==
  CASE sourcePath = "/dir"   -> << <<"sub", "b.txt">>, <<"a.txt">> >>
    [] sourcePath = "/f.txt" -> << <<"f.txt">> >>
    [] OTHER                 -> <<>>

\* uploads are issued one at a time, in order: at most one upload or
\* make-public is pending, it is the last one started, and every upload
\* started before it has its url
OneAtATime(cl) ==
  /\ Cardinality(cl.inflight) <= 1
  /\ cl.inflight \subseteq {cl.started}
  /\ cl.pc \in {"uploading", "makingPublic"} =>
       cl.inflight = {cl.started} /\ Len(cl.urls) = cl.started - 1

Succeeded(cl) ==
  cl.pc = "done" /\ cl.tool = "deploy_to_gcs"
  /\ cl.resp.kind = "result" /\ ~cl.resp.isError

\* C10 as stated: uploads are issued one at a time in traversal order, and
\* on success the url list has one entry per file, in that order, each
\* https://storage.googleapis.com/<bucket>/<prefix>/<relative path>
\* (<prefix>/<basename> for a single file).
C10_UrlsAsStated ==
  \A c \in Slots :
    LET cl == calls[c]
        keys == ExpectedKeys(cl.args.sourcePath)
    IN /\ OneAtATime(cl)
       /\ Succeeded(cl) =>
            cl.resp.urls =
              [i \in 1..Len(keys) |->
                 <<"https:", "", "storage.googleapis.com", cl.bucketName>>
                   \o Split(cl.prefix) \o keys[i]]

\* C10 (amended): as stated, except that the key is the POSIX-normalized
\* join of prefix and relative path (empty and "." segments dropped, ".."
\* resolved), so a prefix "pre/" gives "pre/a.txt", not "pre//a.txt".
C10_Urls ==
  \A c \in Slots :
    LET cl == calls[c]
        keys == ExpectedKeys(cl.args.sourcePath)
    IN /\ OneAtATime(cl)
       /\ Succeeded(cl) =>
            cl.resp.urls =
              [i \in 1..Len(keys) |->
                 <<"https:", "", "storage.googleapis.com", cl.bucketName>>
                   \o Normalize(Split(cl.prefix) \o keys[i])]

\* C10 witness: the directory deployed under the explicit prefix "pre/"
C10_Witness ==
  \E c \in Slots :
    LET cl == calls[c] IN
    /\ Succeeded(cl)
    /\ cl.args.sourcePath = "/dir" /\ cl.args.destinationPrefix = "pre/"
    /\ cl.resp.urls =
         << <<"https:", "", "storage.googleapis.com", cl.bucketName,
              "pre", "sub", "b.txt">>,
            <<"https:", "", "storage.googleapis.com", cl.bucketName,
              "pre", "a.txt">> >>

-----------------------------------------------------------------------------
(* Upload failures                                                           *)

\* C11: once the upload of the k-th file has failed, no further upload is
\* started (no later file, no retry, even after a login that succeeded), the
\* k-1 objects uploaded before it are still there, and the call ends with an
\* error-flagged result that carries no url.
C11_FailedUploadStops ==
  \A c \in Slots :
    LET cl == calls[c] IN
    cl.failedAt > 0 =>
      /\ cl.pc \in {"auth", "done"}
      /\ cl.started = cl.failedAt
      /\ cl.inflight = {}
      /\ cl.uploaded = [i \in 1..(cl.failedAt - 1) |-> Destination(cl, i)]
      /\ cl.pc = "done" =>
            /\ cl.resp.kind = "result" /\ cl.resp.isError
            /\ cl.resp.urls = <<>>
            /\ ~Includes(cl.resp.text, "storage.googleapis.com")

\* the second of two uploads failed with an auth error, the login flow
\* exited 0, and the call has returned
C11_Witness ==
  \E c \in Slots :
    /\ calls[c].pc = "done" /\ calls[c].failedAt = 2
    /\ calls[c].loginExit = "0"
    /\ calls[c].uploaded = << <<calls[c].prefix, "sub", "b.txt">> >>

\* C12: an upload that fails with an error whose code is not 401 and whose
\* message holds neither auth substring never spawns the login flow, and the
\* call returns an error-flagged result whose text is "Error deploying to
\* GCS: " followed by that message, unchanged.
C12_NonAuthFailure ==
  \A c \in Slots :
    LET cl == calls[c] IN
    (/\ cl.failedAt > 0
     /\ cl.failure.code # "401"
     /\ ~Includes(cl.failure.message, CredentialsMsg)
     /\ ~Includes(cl.failure.message, AnonymousMsg)) =>
      /\ cl.nlogin = 0 /\ cl.scopes = <<>> /\ cl.loginExit = NONE
      /\ cl.pc = "done"
      /\ cl.resp = Result(TRUE,
                      <<"Error deploying to GCS: ">> \o cl.failure.message,
                      <<>>)

\* the first upload was refused with a plain 403
C12_Witness ==
  \E c \in Slots :
    /\ calls[c].pc = "done" /\ calls[c].failedAt = 1
    /\ calls[c].failure = Err("403", <<"Forbidden">>)

\* C13: a file.makePublic that rejects, with whatever error, does not fail
\* the deployment: the file's url is still recorded, the remaining files are
\* still uploaded, and no login flow is spawned on its account.
C13_MakePublicFailureIgnored ==
  \A c \in Slots :
    LET cl == calls[c] IN
    /\ \A m \in cl.mpFailed :
          /\ m[1] <= Len(cl.urls)
          /\ cl.urls[m[1]] = PublicUrl(cl.bucketName, Destination(cl, m[1]))
          /\ m[1] < Len(cl.files) => cl.started > m[1]
    /\ cl.failedAt = 0 => cl.nlogin = 0
    /\ (cl.pc = "done" /\ cl.mpFailed # {} /\ cl.failedAt = 0) =>
          /\ Succeeded(cl)
          /\ cl.started = Len(cl.files)
          /\ cl.resp.urls = cl.urls /\ Len(cl.urls) = Len(cl.files)

\* both make-public calls of a directory deployment were rejected, the first
\* with code 401, and the deployment succeeded with both urls
C13_Witness ==
  \E c \in Slots :
    /\ Succeeded(calls[c])
    /\ {m[1] : m \in calls[c].mpFailed} = {1, 2}
    /\ <<1, "401">> \in calls[c].mpFailed
    /\ Len(calls[c].resp.urls) = 2

-----------------------------------------------------------------------------
(* The identity probe                                                        *)

\* C14: the identity probe always yields a value, whatever the child process
\* does (exit 0 with output, exit non-zero, no output, or an 'error' event
\* because it could not be launched): the trimmed output or the sentinel. No
\* call is ever left waiting in the probe with nothing able to resolve it.
C14_ProbeAlwaysResolves ==
  \A c \in Slots :
    LET cl == calls[c] IN
    /\ cl.pc = "probe" => ~crashed
    /\ cl.identity # NONE =>
          cl.identity \in {"alice@example.com", UnknownIdentity}

-----------------------------------------------------------------------------
(* Two runs of one deploy_to_gcs call that differ in the probe's result      *)

\* the two runs
Pair == {1, 2}

InitPair ==
  /\ \/ file = NoFile /\ dir \in BOOLEAN
     \/ file \in {ObjFile(r, FALSE) : r \in ConfigRecs} /\ dir = TRUE
  /\ calls = [c \in Pair |-> IdleCall]
  /\ ncalls = 0
  /\ lastGen = NONE
  /\ crashed = FALSE
  /\ ret = NoRet

\* both runs receive the same request over the same config file, with the
\* same random id and file-system outcome (lines 130-182)
PairDispatch ==
  /\ \A c \in Pair : CanDispatch(c)
  /\ \E a \in DeployArgs, randomId \in RandomIds, outcome \in Outcomes(dir) :
       LET h == DeployRequest(file, dir, a, randomId, outcome)
       IN /\ file' = h.file
          /\ dir' = h.dir
          /\ lastGen' = IF h.gen # ABSENT THEN h.gen ELSE NONE
          /\ calls' = [c \in Pair |-> h.call]
  /\ ncalls' = ncalls + 1
  /\ UNCHANGED <<crashed, ret>>

\* the probe closes in both runs, each with its own exit code and output
PairProbeClose ==
  /\ calls[1].pc = "probe"
  /\ \E code \in [Pair -> ExitCodes], stdout \in [Pair -> ProbeOutputs] :
       calls' = [c \in Pair |->
         IF calls[c].pc = "probe"
           THEN EnterDeploy([calls[c] EXCEPT
                  !.identity = ProbeIdentity(code[c], stdout[c])])
           ELSE calls[c]]
  /\ UNCHANGED <<file, dir, ncalls, lastGen, crashed, ret>>

\* the storage service answers the pending upload the same way in both runs
PairUploadSettle ==
  /\ calls[1].pc = "uploading"
  /\ \E r \in {Err("ok", <<>>)} \cup RemoteErrors :
       calls' = [c \in Pair |->
         IF calls[c].pc = "uploading" THEN AfterUpload(calls[c], r)
         ELSE calls[c]]
  /\ UNCHANGED <<file, dir, ncalls, lastGen, crashed, ret>>

\* and the pending make-public
PairMakePublicSettle ==
  /\ calls[1].pc = "makingPublic"
  /\ \E r \in {Err("ok", <<>>)} \cup RemoteErrors :
       calls' = [c \in Pair |->
         IF calls[c].pc = "makingPublic" THEN AfterMakePublic(calls[c], r)
         ELSE calls[c]]
  /\ UNCHANGED <<file, dir, ncalls, lastGen, crashed, ret>>

\* the login flow ends the same way in both runs
PairLoginClose ==
  /\ calls[1].pc = "auth"
  /\ \E code \in ExitCodes :
       calls' = [c \in Pair |->
         IF calls[c].pc = "auth" THEN AfterLoginClose(calls[c], code)
         ELSE calls[c]]
  /\ UNCHANGED <<file, dir, ncalls, lastGen, crashed, ret>>

PairLoginError ==
  /\ calls[1].pc = "auth"
  /\ calls' = [c \in Pair |->
       IF calls[c].pc = "auth" THEN AfterLoginFailed(calls[c]) ELSE calls[c]]
  /\ UNCHANGED <<file, dir, ncalls, lastGen, crashed, ret>>

PairRetire ==
  /\ calls[1].pc = "done"
  /\ calls' = [c \in Pair |-> IdleCall]
  /\ UNCHANGED <<file, dir, ncalls, lastGen, crashed, ret>>

NextPair ==
  \/ PairDispatch
  \/ PairProbeClose
  \/ PairUploadSettle
  \/ PairMakePublicSettle
  \/ PairLoginClose
  \/ PairLoginError
  \/ PairRetire

SpecPair == InitPair /\ [][NextPair]_vars

\* what a run shows apart from the identity: every upload and make-public
\* call it issued, the login flows it spawned, and its response but for the
\* text (which quotes the identity in the pre-flight line)
Observed(cl) == [cl EXCEPT !.identity = NONE, !.resp.text = <<>>]

\* C15: two deploy_to_gcs calls that differ only in what the identity probe
\* returned issue the same upload and make-public calls and return the same
\* error flag and the same url list.
C15_ProbeDoesNotMatter ==
  Observed(calls[1]) = Observed(calls[2])

\* one run deployed a directory as alice, the other under the sentinel, and
\* both succeeded
C15_Witness ==
  /\ Succeeded(calls[1]) /\ Succeeded(calls[2])
  /\ calls[1].identity = "alice@example.com"
  /\ calls[2].identity = UnknownIdentity
  /\ Len(calls[1].resp.urls) = 2
  /\ calls[1].resp.text # calls[2].resp.text

-----------------------------------------------------------------------------
(* Parameter layering and the persisted config                               *)

\* the step in which slot c takes a deploy_to_gcs call that carries arguments
DeployDispatch(c) ==
  /\ calls[c].pc = "idle"
  /\ calls'[c].tool = "deploy_to_gcs"
  /\ calls'[c].args.has

\* the later calls C16 speaks of: no bucketName, no destinationPrefix
PlainDeployArgs ==
  {a \in DeployArgs : a.has /\ a.bucketName = ABSENT
                            /\ a.destinationPrefix = ABSENT}

\* what a call resolves to
Resolved(r) ==
  [threw |-> r.threw, bucketName |-> r.bucketName, projectId |-> r.projectId,
   prefix |-> r.prefix]

\* bucketName is the request's when supplied, else the persisted one;
\* projectId is the persisted one; a non-empty request prefix is the prefix;
\* the call leaves the persisted bucketName and projectId as they were and
\* does not store the request's prefix as the subfolder
LayeredOver(c) ==
  LET a == calls'[c].args IN
  /\ calls'[c].bucketName =
       (IF Truthy(a.bucketName) THEN a.bucketName
        ELSE Stored(file, "bucketName"))
  /\ calls'[c].projectId = Stored(file, "projectId")
  /\ Truthy(a.destinationPrefix) => calls'[c].prefix = a.destinationPrefix
  /\ file'.rec.bucketName = file.rec.bucketName
  /\ file'.rec.projectId = file.rec.projectId
  /\ Truthy(a.destinationPrefix) => file' = file /\ dir' = dir

\* C16 as stated: the layering above, and after a call that supplied a
\* bucketName or a destinationPrefix (and went on to deploy) a later call
\* without those arguments resolves exactly as if that call had not
\* happened.
C16_LayeringAsStated ==
  [][\A c \in Slots : DeployDispatch(c) =>
       /\ LayeredOver(c)
       /\ (/\ calls'[c].pc = "probe"
           /\ \/ Truthy(calls'[c].args.bucketName)
              \/ Truthy(calls'[c].args.destinationPrefix)) =>
            \A a \in PlainDeployArgs, randomId \in RandomIds,
               outcome \in Outcomes(dir) \cap Outcomes(dir') :
              Resolved(Resolve(file', dir', a, randomId, outcome))
                = Resolved(Resolve(file, dir, a, randomId, outcome))]_vars

\* C16 (amended): the layering above; a call that supplies a non-empty
\* destinationPrefix leaves the config file untouched, so a later call
\* resolves exactly as if it had not happened; a call that supplies only a
\* bucketName can still generate and persist a subfolder, and then a later
\* call without those arguments resolves to the same bucketName and
\* projectId as if it had not happened, but to the prefix it persisted.
C16_Layering ==
  [][\A c \in Slots : DeployDispatch(c) =>
       /\ LayeredOver(c)
       /\ \A a \in PlainDeployArgs, randomId \in RandomIds,
             outcome \in Outcomes(dir) \cap Outcomes(dir') :
            LET after  == Resolve(file', dir', a, randomId, outcome)
                before == Resolve(file, dir, a, randomId, outcome)
            IN /\ after.bucketName = before.bucketName
               /\ after.projectId = before.projectId
               /\ Truthy(calls'[c].args.destinationPrefix) =>
                    Resolved(after) = Resolved(before)
               /\ calls'[c].wrote =>
                    after.prefix = calls'[c].gen /\ after.gen = ABSENT]_vars

\* a call that supplied both bucketName and destinationPrefix over a config
\* that persists another bucket has proceeded with the request's values, and
\* the file still holds the other bucket and no subfolder
C16_Witness ==
  \E c \in Slots :
    /\ calls[c].pc = "probe"
    /\ calls[c].args.bucketName = "b2" /\ calls[c].bucketName = "b2"
    /\ calls[c].args.destinationPrefix = "pre" /\ calls[c].prefix = "pre"
    /\ calls[c].projectId = "p1"
    /\ file.rec.bucketName = "b1" /\ file.rec.subfolder = ABSENT

\* the call was turned away before deploying: InvalidParams for a missing
\* sourcePath, or the configuration-missing response
TurnedAway(cl) ==
  \/ cl.resp.kind = "fault" /\ cl.resp.code = "InvalidParams"
  \/ /\ cl.resp.kind = "result" /\ cl.resp.isError
     /\ cl.resp.text = MissingText(MissingItems(cl.bucketName, cl.projectId))

\* C17: a deploy_to_gcs call that is turned away (InvalidParams for a missing
\* sourcePath, or the configuration-missing response) leaves the config file
\* exactly as it was: it neither generates nor persists a subfolder.
C17_TurnedAwayWritesNothing ==
  [][\A c \in Slots :
       (DeployDispatch(c) /\ calls'[c].pc = "done" /\ TurnedAway(calls'[c]))
         => /\ file' = file /\ dir' = dir
            /\ calls'[c].gen = ABSENT /\ ~calls'[c].wrote]_vars

-----------------------------------------------------------------------------
(* Overlapping invocations in one server process                             *)

\* the requests of the overlapping runs: one source file, the persisted
\* bucket, with and without explicit prefix; a full configure_gcs
OverlapDeployArgs ==
  {a \in DeployArgs : a.has /\ a.sourcePath = "/f.txt"
                            /\ a.bucketName = ABSENT
                            /\ a.destinationPrefix \in {ABSENT, "pre"}}

OverlapConfigureArgs ==
  {a \in ConfigureArgs : a.has /\ a.bucketName = "b1" /\ a.projectId = "p1"}

\* a second handler invocation is dispatched as soon as the first is
\* suspended: the handler up to its first await is one step (lines 112-182
\* hold no await, and ConfigManager uses the synchronous fs calls)
OverlapConfigure(c) ==
  /\ CanDispatch(c)
  /\ \E a \in OverlapConfigureArgs, outcome \in Outcomes(dir) :
       LET h == ConfigureRequest(file, dir, a, outcome)
       IN /\ file' = h.file
          /\ dir' = h.dir
          /\ calls' = [calls EXCEPT ![c] = h.call]
  /\ ncalls' = ncalls + 1
  /\ lastGen' = NONE
  /\ UNCHANGED <<crashed, ret>>

OverlapDeploy(c) ==
  /\ CanDispatch(c)
  /\ \E a \in OverlapDeployArgs, randomId \in RandomIds,
        outcome \in Outcomes(dir) :
       LET h == DeployRequest(file, dir, a, randomId, outcome)
       IN /\ file' = h.file
          /\ dir' = h.dir
          /\ lastGen' = IF h.gen # ABSENT THEN h.gen ELSE NONE
          /\ calls' = [calls EXCEPT ![c] = h.call]
  /\ ncalls' = ncalls + 1
  /\ UNCHANGED <<crashed, ret>>

NextOverlap ==
  \E c \in Pair :
    \/ OverlapConfigure(c)
    \/ OverlapDeploy(c)
    \/ ProbeClose(c)
    \/ ProbeError(c)
    \/ UploadSettle(c)
    \/ MakePublicSettle(c)
    \/ LoginClose(c)
    \/ LoginError(c)
    \/ Retire(c)

SpecOverlap == InitPair /\ [][NextOverlap]_vars

\* slot c takes an invocation in this step
Dispatching(c) == calls[c].pc = "idle" /\ calls'[c].pc # "idle"

\* the invocation is suspended on the probe, an upload, a make-public or
\* the login flow
Suspended(cl) == cl.pc \in {"probe", "uploading", "makingPublic", "auth"}

\* the partial an invocation passes to ConfigManager.save
SavedPartial(cl) ==
  IF cl.tool = "configure_gcs"
    THEN [bucketName |-> Read(cl.args.bucketName),
          projectId |-> Read(cl.args.projectId),
          subfolder |-> Read(cl.args.subfolder)]
    ELSE [EmptyRec EXCEPT !.subfolder = cl.gen]

\* a deploy_to_gcs call without explicit prefix that got past resolution
\* and validation
DeploysUnderDefault(cl) ==
  /\ cl.tool = "deploy_to_gcs" /\ cl.args.has
  /\ ~Truthy(cl.args.destinationPrefix)
  /\ cl.nprobe = 1

\* the first two invocations of the process are deploy_to_gcs calls without
\* explicit prefix: they run under one prefix and at most one generated it
SamePrefix ==
  (ncalls = 2 /\ \A c \in Pair : DeploysUnderDefault(calls[c])) =>
    /\ calls[1].prefix = calls[2].prefix
    /\ calls[1].gen = ABSENT \/ calls[2].gen = ABSENT

\* the config file changes only in the step that dispatches an invocation,
\* and then it becomes the invocation's save applied to the file as that
\* step found it; the steps that resume a suspended invocation leave it alone
SavesInDispatchOrder ==
  \A c \in Pair :
    /\ (Dispatching(c) /\ calls'[c].wrote) =>
          file' = SaveResult(file, dir, SavedPartial(calls'[c]), "ok").file
    /\ (Dispatching(c) /\ ~calls'[c].wrote) => file' = file
    /\ (calls'[c] # calls[c] /\ ~Dispatching(c)) => file' = file /\ dir' = dir

\* a deploy_to_gcs call without explicit prefix dispatched while another
\* invocation is suspended, with that invocation's generated subfolder
\* still the persisted one, runs under it and generates none
ReusesWhileSuspended ==
  \A c, d \in Pair :
    (/\ c # d /\ Dispatching(c) /\ Suspended(calls[d])
     /\ calls'[c].tool = "deploy_to_gcs" /\ calls'[c].args.has
     /\ ~Truthy(calls'[c].args.destinationPrefix)
     /\ calls[d].gen # ABSENT /\ Stored(file, "subfolder") = calls[d].gen)
    => /\ calls'[c].prefix = calls[d].gen
       /\ calls'[c].gen = ABSENT
       /\ file' = file

-----------------------------------------------------------------------------
(* The generated subfolder                                                   *)

\* C19: every subfolder a deploy_to_gcs call generates matches
\* site-[0-9a-z]{6}: "site-" followed by exactly six characters, each a
\* digit or a lowercase letter, whatever the random source returned.
C19_SubfolderPattern ==
  \A c \in Slots :
    LET gen == calls[c].gen IN
    gen # ABSENT =>
      /\ Len(gen) = 11
      /\ SubSeq(gen, 1, 5) = "site-"
      /\ \A i \in 6..11 :
            \E j \in DOMAIN Digits36 : SubSeq(gen, i, i) = Digits36[j]

====
